---- MODULE Spec2Model ----
(***************************************************************************)
(* typedorm core: the Connection (schema registry, connect() lifecycle and *)
(* lookups) and the DocumentClientTransactionTransformer (composition of   *)
(* write and read transactions into DynamoDB operation lists).             *)
(***************************************************************************)
EXTENDS Integers, Sequences, FiniteSets, TLC

VARIABLES
    entities,        \* options.entities: the entity classes declared at creation
    isConnected,     \* Connection.isConnected
    entityMetadatas, \* Connection._entityMetadatas: [defined, entries]
    buildCount,      \* number of buildMetadatas() invocations so far
    destroyed,       \* the names destroySelf was called with, in call order
    result,          \* outcome of the most recent call
    phase,           \* where the transaction in progress stands
    txKind,          \* "write" or "read" ("none" while there is no transaction)
    items,           \* the items of the transaction in progress
    transactionItemList,                \* the composed operation list
    lazyTransactionWriteItemListLoader, \* the composed list of deferred expansions
    resolved,        \* per deferred expansion: its state and the operations it emitted
    finalList,       \* the operation list of the finalized transaction
    submitted,       \* what was handed to the executor for this transaction
    reads,           \* reads performed for this transaction
    other            \* what a second composition on the same transformer returned

connVars == <<entities, isConnected, entityMetadatas, buildCount, destroyed>>
txVars == <<phase, txKind, items, transactionItemList,
            lazyTransactionWriteItemListLoader, resolved, finalList, submitted, reads,
            other>>
vars == <<entities, isConnected, entityMetadatas, buildCount, destroyed, result,
          phase, txKind, items, transactionItemList,
          lazyTransactionWriteItemListLoader, resolved, finalList, submitted, reads,
          other>>

----------------------------------------------------------------------------
(* Bounds *)

\* metadata builds attempted by connect() on one connection
MaxBuilds == 2

\* items in one transaction
MaxItems == 3

\* items in each of two transactions composed side by side
MaxConcurrentItems == 1

----------------------------------------------------------------------------
(* Entity classes and their decorator metadata *)

\* Entity classes. UserV2 is a second class whose class name is also "User".
Types == {"User", "Org", "UserV2", "Bad"}

\* entityClass.name
ClassName(t) == IF t = "UserV2" THEN "User" ELSE t

Attr(n, u, au) == [name |-> n, unique |-> u, autoUpdate |-> au]

\* EntityMetadata.attributes, in declaration order
AttributesOf(t) ==
    CASE t = "User"   -> << Attr("id", TRUE, FALSE), Attr("handle", TRUE, FALSE),
                            Attr("email", TRUE, FALSE), Attr("name", FALSE, FALSE),
                            Attr("updatedAt", FALSE, TRUE) >>
      [] t = "Org"    -> << Attr("orgId", FALSE, FALSE), Attr("title", FALSE, FALSE) >>
      [] t = "UserV2" -> << Attr("email", TRUE, FALSE), Attr("nick", TRUE, FALSE),
                            Attr("name", FALSE, FALSE) >>
      [] t = "Bad"    -> << Attr("id", TRUE, FALSE) >>

\* EntityMetadata.schema.primaryKey: metadata._interpolations is an object from
\* key name to the list of attribute names its template references, kept here
\* as the list of its entries in key order; it is absent for UserV2.
PrimaryKeyOf(t) ==
    CASE t = "User"   -> [hasInterpolations |-> TRUE,
                          interpolations |-> << [key |-> "PK", attrs |-> <<"id">>],
                                                [key |-> "SK", attrs |-> <<"handle", "name">>] >>]
      [] t = "Org"    -> [hasInterpolations |-> TRUE,
                          interpolations |-> << [key |-> "PK", attrs |-> <<"orgId">>] >>]
      [] t = "UserV2" -> [hasInterpolations |-> FALSE, interpolations |-> << >>]
      [] t = "Bad"    -> [hasInterpolations |-> TRUE,
                          interpolations |-> << [key |-> "PK", attrs |-> <<"missing">>] >>]

EntityMetadataOf(t) ==
    [target |-> t, attributes |-> AttributesOf(t), primaryKey |-> PrimaryKeyOf(t)]

\* The lists of entity classes a connection is created with
EntityLists ==
    { << >>, <<"User">>, <<"Org">>, <<"Bad">>,
      <<"User", "Org">>, <<"User", "UserV2">>, <<"UserV2", "User">>,
      <<"Org", "Bad">> }

----------------------------------------------------------------------------
(* Helpers *)

Range(s) == { s[i] : i \in 1..Len(s) }

NamesOf(attrs) == { attrs[i].name : i \in 1..Len(attrs) }

\* Map.prototype.set on a Map kept as its entries in insertion order: an
\* existing key keeps its position and takes the new value.
MapSet(entries, k, v) ==
    IF \E i \in 1..Len(entries) : entries[i].key = k
    THEN [i \in 1..Len(entries) |->
            IF entries[i].key = k THEN [key |-> k, value |-> v] ELSE entries[i]]
    ELSE Append(entries, [key |-> k, value |-> v])

\* new Map(iterable of [key, value])
RECURSIVE MapFromPairs(_, _)
MapFromPairs(pairs, acc) ==
    IF pairs = << >> THEN acc
    ELSE MapFromPairs(Tail(pairs), MapSet(acc, Head(pairs).key, Head(pairs).value))

MapHas(entries, k) == \E i \in 1..Len(entries) : entries[i].key = k

\* Map.prototype.get, for a key the map has
MapGet(entries, k) ==
    entries[CHOOSE i \in 1..Len(entries) : entries[i].key = k].value

\* Array.from(map.values())
MapValues(entries) == [i \in 1..Len(entries) |-> entries[i].value]

----------------------------------------------------------------------------
(* Connection *)

ConnectionName == "default"

Undefined == [defined |-> FALSE, entries |-> << >>]

\* Outcomes of a call
NoCall == [op |-> "none", arg |-> "", status |-> "none", error |-> "", value |-> << >>]
Ok(op, arg, v) == [op |-> op, arg |-> arg, status |-> "ok", error |-> "", value |-> v]
Throw(op, arg, e) == [op |-> op, arg |-> arg, status |-> "error", error |-> e, value |-> << >>]

\* ConnectionMetadataBuilder.buildEntityMetadatas: one metadata per declared
\* entity, in declaration order; fails when a primary-key template references
\* an attribute the entity does not have.
ValidKeyTemplate(t) ==
    \A i \in 1..Len(PrimaryKeyOf(t).interpolations) :
        Range(PrimaryKeyOf(t).interpolations[i].attrs) \subseteq NamesOf(AttributesOf(t))

buildMetadatas(ents) ==
    IF \A i \in 1..Len(ents) : ValidKeyTemplate(ents[i])
    THEN [ok |-> TRUE, metas |-> [i \in 1..Len(ents) |-> EntityMetadataOf(ents[i])],
          error |-> ""]
    ELSE [ok |-> FALSE, metas |-> << >>, error |-> "InvalidKeyTemplate"]

\* connect(), lines 65-69: the guard on the isConnected flag
NeverActive(connected) == FALSE

AlreadyActive(connected) == connected

\* connect(), lines 72-77: the registry built from the metadatas. The first
\* variant keeps the first metadata of a class name instead of the last.
RegistryFromFirstWins(metas) ==
    MapFromPairs([i \in 1..Len(metas) |->
                    [key |-> ClassName(metas[Len(metas) + 1 - i].target),
                     value |-> metas[Len(metas) + 1 - i]]], << >>)

RegistryFrom(metas) ==
    MapFromPairs([i \in 1..Len(metas) |->
                    [key |-> ClassName(metas[i].target), value |-> metas[i]]], << >>)

\* connect(), lines 81-85: the catch block, giving the destroySelf calls made
\* and the error thrown on
catchWithoutDestroy(destroyedSoFar, name, err) ==
    [destroyed |-> destroyedSoFar, rethrown |-> err]

catchBuildError(destroyedSoFar, name, err) ==
    [destroyed |-> Append(destroyedSoFar, name), rethrown |-> err]

connect ==
    /\ phase = "Idle"
    /\ isConnected \/ buildCount < MaxBuilds
    /\ UNCHANGED txVars
    /\ IF AlreadyActive(isConnected)
       THEN /\ result' = Throw("connect", "", "AlreadyConnected")
            /\ UNCHANGED <<entities, isConnected, entityMetadatas, buildCount, destroyed>>
       ELSE LET built == buildMetadatas(entities) IN
            /\ buildCount' = buildCount + 1
            /\ IF built.ok
               THEN /\ entityMetadatas' = [defined |-> TRUE,
                                           entries |-> RegistryFrom(built.metas)]
                    /\ isConnected' = TRUE
                    /\ result' = Ok("connect", "", << >>)
                    /\ UNCHANGED <<entities, destroyed>>
               ELSE LET caught == catchBuildError(destroyed, ConnectionName, built.error) IN
                    /\ destroyed' = caught.destroyed
                    /\ result' = Throw("connect", "", caught.rethrown)
                    /\ UNCHANGED <<entities, isConnected, entityMetadatas>>

\* The public method buildMetadatas(), lines 175-179, called directly: it runs
\* the metadata build and returns the metadatas or throws the build's error;
\* it assigns nothing and calls no destroySelf.
BuildMetadatas ==
    LET built == buildMetadatas(entities) IN
    /\ phase = "Idle"
    /\ buildCount < MaxBuilds
    /\ UNCHANGED txVars
    /\ buildCount' = buildCount + 1
    /\ result' = IF built.ok THEN Ok("buildMetadatas", "", built.metas)
                  ELSE Throw("buildMetadatas", "", built.error)
    /\ UNCHANGED <<entities, isConnected, entityMetadatas, destroyed>>

\* The outcome of this._entityMetadatas.get(name): a TypeError while the
\* field is unassigned, else the value or undefined.
RegistryGet(reg, name) ==
    IF ~reg.defined THEN [thrown |-> TRUE, found |-> FALSE, value |-> << >>]
    ELSE IF MapHas(reg.entries, name)
         THEN [thrown |-> FALSE, found |-> TRUE, value |-> <<MapGet(reg.entries, name)>>]
         ELSE [thrown |-> FALSE, found |-> FALSE, value |-> << >>]

\* getEntityByTarget, lines 139-144, on the outcome of the registry read
metadataOrDefault(t, metadata) ==
    IF metadata.thrown THEN Throw("getEntityByTarget", t, "TypeError")
    ELSE IF ~metadata.found THEN Ok("getEntityByTarget", t, <<EntityMetadataOf(t)>>)
    ELSE Ok("getEntityByTarget", t, metadata.value)

metadataOrThrow(t, metadata) ==
    IF metadata.thrown THEN Throw("getEntityByTarget", t, "TypeError")
    ELSE IF ~metadata.found THEN Throw("getEntityByTarget", t, "NoSuchEntity")
    ELSE Ok("getEntityByTarget", t, metadata.value)

getEntityByTarget(reg, t) == metadataOrThrow(t, RegistryGet(reg, ClassName(t)))

\* getAttributesForEntity, lines 98-103, on the outcome of the registry read
attributesOrThrow(t, attributesMap) ==
    IF attributesMap.thrown THEN Throw("getAttributesForEntity", t, "TypeError")
    ELSE IF ~attributesMap.found
    THEN Throw("getAttributesForEntity", t, "CannotFindAttributes")
    ELSE Ok("getAttributesForEntity", t, attributesMap.value[1].attributes)

getAttributesForEntity(reg, t) == attributesOrThrow(t, RegistryGet(reg, ClassName(t)))

\* Array.prototype.includes
Includes(s, x) == \E i \in 1..Len(s) : s[i] = x

isUsedForPrimaryKeyFirstOnly(primaryKey, attributeName) ==
    LET primaryKeyInterpolations ==
            IF primaryKey.hasInterpolations THEN primaryKey.interpolations ELSE << >>
    IN  /\ primaryKeyInterpolations # << >>
        /\ Includes(primaryKeyInterpolations[1].attrs, attributeName)

isUsedForPrimaryKey(primaryKey, attributeName) ==
    LET primaryKeyInterpolations ==
            IF primaryKey.hasInterpolations THEN primaryKey.interpolations ELSE << >>
    IN  \E i \in 1..Len(primaryKeyInterpolations) :
            Includes(primaryKeyInterpolations[i].attrs, attributeName)

\* getUniqueAttributesForEntity, lines 118-134, on the outcomes of the two
\* lookups it makes
uniqueNotInKey(t, entityMetadata, attributes) ==
    IF entityMetadata.status = "error"
    THEN Throw("getUniqueAttributesForEntity", t, entityMetadata.error)
    ELSE IF attributes.status = "error"
    THEN Throw("getUniqueAttributesForEntity", t, attributes.error)
    ELSE LET Keep(attr) ==
                /\ attr.unique
                /\ ~isUsedForPrimaryKey(entityMetadata.value[1].primaryKey, attr.name)
         IN  Ok("getUniqueAttributesForEntity", t, SelectSeq(attributes.value, Keep))

getUniqueAttributesForEntity(reg, t) ==
    uniqueNotInKey(t, getEntityByTarget(reg, t), getAttributesForEntity(reg, t))

\* getAutoUpdateAttributes, lines 159-161, on the outcome of the lookup it makes
autoUpdateOnly(t, attributes) ==
    IF attributes.status = "error"
    THEN Throw("getAutoUpdateAttributes", t, attributes.error)
    ELSE LET Keep(attr) == attr.autoUpdate
         IN  Ok("getAutoUpdateAttributes", t, SelectSeq(attributes.value, Keep))

getAutoUpdateAttributes(reg, t) == autoUpdateOnly(t, getAttributesForEntity(reg, t))

\* hasMetadata, line 93, on the outcome of the lookup it makes; the first
\* variant answers false where the lookup throws.
truthyOrFalse(t, entityMetadata) ==
    IF entityMetadata.status = "error"
    THEN Ok("hasMetadata", t, <<FALSE>>)
    ELSE Ok("hasMetadata", t, <<TRUE>>)

truthy(t, entityMetadata) ==
    IF entityMetadata.status = "error"
    THEN Throw("hasMetadata", t, entityMetadata.error)
    ELSE Ok("hasMetadata", t, <<TRUE>>)

hasMetadata(reg, t) == truthy(t, getEntityByTarget(reg, t))

\* The entityMetadatas getter, lines 88-90; the first variant gives an empty
\* list while the registry is unassigned.
entityMetadatasGetterOrEmpty(reg) ==
    IF ~reg.defined THEN Ok("entityMetadatas", "", << >>)
    ELSE Ok("entityMetadatas", "", MapValues(reg.entries))

entityMetadatasGetter(reg) ==
    IF ~reg.defined THEN Throw("entityMetadatas", "", "TypeError")
    ELSE Ok("entityMetadatas", "", MapValues(reg.entries))

\* The lookups, each called with any entity class. The first variant of
\* getEntityByTarget registers the class's own metadata when the registry
\* has none under its name.
GetEntityByTargetRegistersMissing ==
    \E t \in Types :
        /\ phase = "Idle"
        /\ UNCHANGED txVars
        /\ result' = getEntityByTarget(entityMetadatas, t)
        /\ entityMetadatas' =
              IF entityMetadatas.defined /\ ~MapHas(entityMetadatas.entries, ClassName(t))
              THEN [entityMetadatas EXCEPT !.entries =
                       MapSet(@, ClassName(t), EntityMetadataOf(t))]
              ELSE entityMetadatas
        /\ UNCHANGED <<entities, isConnected, buildCount, destroyed>>

GetEntityByTarget ==
    \E t \in Types :
        /\ phase = "Idle"
        /\ UNCHANGED txVars
        /\ result' = getEntityByTarget(entityMetadatas, t)
        /\ UNCHANGED connVars

GetAttributesForEntity ==
    \E t \in Types :
        /\ phase = "Idle"
        /\ UNCHANGED txVars
        /\ result' = getAttributesForEntity(entityMetadatas, t)
        /\ UNCHANGED connVars

GetUniqueAttributesForEntity ==
    \E t \in Types :
        /\ phase = "Idle"
        /\ UNCHANGED txVars
        /\ result' = getUniqueAttributesForEntity(entityMetadatas, t)
        /\ UNCHANGED connVars

GetAutoUpdateAttributes ==
    \E t \in Types :
        /\ phase = "Idle"
        /\ UNCHANGED txVars
        /\ result' = getAutoUpdateAttributes(entityMetadatas, t)
        /\ UNCHANGED connVars

HasMetadata ==
    \E t \in Types :
        /\ phase = "Idle"
        /\ UNCHANGED txVars
        /\ result' = hasMetadata(entityMetadatas, t)
        /\ UNCHANGED connVars

EntityMetadatas ==
    /\ phase = "Idle"
    /\ UNCHANGED txVars
    /\ result' = entityMetadatasGetter(entityMetadatas)
    /\ UNCHANGED connVars

----------------------------------------------------------------------------
(* Transaction items and the low-order transformers *)

\* Attribute values; a transaction item carries NewValue for the attributes
\* it names, a stored record holds any value.
Values == {"a", "b"}
NewValue == "b"

\* The bodies of the Update items submitted for an entity class: the
\* attributes the update sets, each to NewValue
UpdateBodies(t) ==
    LET Body(S) == [n \in S |-> NewValue] IN
    CASE t = "User"   -> { Body({"email"}), Body({"handle", "name"}) }
      [] t = "Org"    -> { Body({"title"}) }
      [] t = "UserV2" -> { Body({"email", "nick"}), Body({"name"}) }
      [] t = "Bad"    -> { Body({"id"}) }

NoBody == [n \in {} |-> NewValue]

\* WriteTransactionItem / ReadTransactionItem: {create}, {update}, {delete}, {get}
ItemsFor(t) ==
    { [kind |-> k, entity |-> t, body |-> NoBody] : k \in {"create", "delete", "get"} }
        \cup { [kind |-> "update", entity |-> t, body |-> b] : b \in UpdateBodies(t) }

\* The item lists of at most n items over the entity classes in ts
ItemLists(ts, n) ==
    UNION { [1..len -> UNION { ItemsFor(t) : t \in ts }] : len \in 0..n }

\* The entity classes whose metadata the registry holds
RegisteredTargets(reg) == { reg.entries[i].value.target : i \in 1..Len(reg.entries) }

\* type guards of transaction/type-guards
isTransactionAddCreateItem(item) == item.kind = "create"
isTransactionAddUpdateItem(item) == item.kind = "update"
isTransactionAddDeleteItem(item) == item.kind = "delete"
isTransactionAddGetItem(item) == item.kind = "get"

\* A DynamoDB operation of a transaction: {Put: ...}, {Update: ...}, ...
Op(type, input) == [type |-> type, input |-> input]

NoInput == [record |-> "none"]
NoLoader == [kind |-> "none"]

MainRecord(t) == [record |-> "main", entity |-> ClassName(t), condition |-> "none"]

LockRecord(t, attr, value, condition) ==
    [record |-> "lock", entity |-> ClassName(t), attr |-> attr, value |-> value,
     condition |-> condition]

\* The names of the non-key unique attributes of the entity, in attribute order
AttributeNames(attrs) == [i \in 1..Len(attrs) |-> attrs[i].name]

UniqueNames(reg, t) == AttributeNames(getUniqueAttributesForEntity(reg, t).value)

\* LowOrderTransformers.toDynamoPutItem: one Put input for an entity without
\* non-key unique attributes, else the list of the main record's Put and one
\* Put conditioned on non-existence per non-key unique attribute.
toDynamoPutItem(reg, item) ==
    LET uniq == UniqueNames(reg, item.entity) IN
    IF uniq = << >>
    THEN [isList |-> FALSE, input |-> MainRecord(item.entity), list |-> << >>]
    ELSE [isList |-> TRUE, input |-> NoInput,
          list |-> <<Op("Put", MainRecord(item.entity))>>
                   \o [i \in 1..Len(uniq) |->
                         Op("Put", LockRecord(item.entity, uniq[i], NewValue,
                                              "attribute_not_exists"))]]

\* LowOrderTransformers.toDynamoUpdateItem: the Update input, or a lazy loader
\* when the body sets a non-key unique attribute.
toDynamoUpdateItem(reg, item) ==
    LET uniq == UniqueNames(reg, item.entity)
        Touched(n) == n \in DOMAIN item.body
        input == [record |-> "main", entity |-> ClassName(item.entity),
                  condition |-> "none", set |-> item.body, ReturnValues |-> "ALL_NEW"]
    IN  IF SelectSeq(uniq, Touched) = << >>
        THEN [isLazy |-> FALSE, input |-> input, loader |-> NoLoader]
        ELSE [isLazy |-> TRUE, input |-> NoInput,
              loader |-> [kind |-> "update", entity |-> item.entity, input |-> input,
                          attrs |-> SelectSeq(uniq, Touched)]]

\* LowOrderTransformers.toDynamoDeleteItem: the Delete input, or a lazy loader
\* when the entity has non-key unique attributes.
toDynamoDeleteItem(reg, item) ==
    LET uniq == UniqueNames(reg, item.entity) IN
    IF uniq = << >>
    THEN [isLazy |-> FALSE, input |-> MainRecord(item.entity), loader |-> NoLoader]
    ELSE [isLazy |-> TRUE, input |-> NoInput,
          loader |-> [kind |-> "delete", entity |-> item.entity,
                      input |-> MainRecord(item.entity), attrs |-> uniq]]

\* LowOrderTransformers.toDynamoGetItem
toDynamoGetItem(reg, item) == MainRecord(item.entity)

isWriteTransactionItemList(x) == x.isList

isLazyTransactionWriteItemListLoader(x) == x.isLazy

\* helpers/drop-prop
dropProp(r, prop) == [f \in (DOMAIN r) \ {prop} |-> r[f]]

\* The stored records a read for a lazy loader can find: a value for each
\* unique attribute the loader tracks
StoredItems(loader) == [Range(loader.attrs) -> Values]

\* LazyTransactionWriteItemListLoader.lazyLoadTransactionWriteItems: the
\* operations of a resolved expansion, given the stored record. An update
\* emits the main Update, then per unique attribute whose value changes the
\* Delete of the old lock, then per such attribute the conditional Put of the
\* new lock; a delete emits the main Delete and the Delete of each lock.
lazyLoadTransactionWriteItems(loader, stored) ==
    IF loader.kind = "update"
    THEN LET Changed(n) == stored[n] # loader.input.set[n]
             changed == SelectSeq(loader.attrs, Changed)
         IN  <<Op("Update", loader.input)>>
             \o [i \in 1..Len(changed) |->
                   Op("Delete", LockRecord(loader.entity, changed[i],
                                           stored[changed[i]], "none"))]
             \o [i \in 1..Len(changed) |->
                   Op("Put", LockRecord(loader.entity, changed[i],
                                        loader.input.set[changed[i]],
                                        "attribute_not_exists"))]
    ELSE <<Op("Delete", loader.input)>>
         \o [i \in 1..Len(loader.attrs) |->
               Op("Delete", LockRecord(loader.entity, loader.attrs[i],
                                       stored[loader.attrs[i]], "none"))]

----------------------------------------------------------------------------
(* DocumentClientTransactionTransformer *)

\* The reducers' accumulators, lines 175-178 and 102-104: fresh lists, made
\* for each call. The first variant is one accumulator kept by the transformer,
\* which holds what the composition in progress has pushed to it.
SharedWriteAcc == [transactionItemList |-> transactionItemList,
                   lazyTransactionWriteItemListLoader |->
                       lazyTransactionWriteItemListLoader]

EmptyWriteAcc == [transactionItemList |-> << >>,
                  lazyTransactionWriteItemListLoader |-> << >>]

EmptyReadAcc == [transactionItemList |-> << >>]

Continue(acc) == [thrown |-> FALSE, error |-> "", acc |-> acc]

Raise(error, acc) == [thrown |-> TRUE, error |-> error, acc |-> acc]

\* lines 118-131
createBranchMainOnly(reg, acc, transactionItem) ==
    LET dynamoPutItemInput == toDynamoPutItem(reg, transactionItem) IN
    IF ~isWriteTransactionItemList(dynamoPutItemInput)
    THEN [acc EXCEPT !.transactionItemList = Append(@, Op("Put", dynamoPutItemInput.input))]
    ELSE [acc EXCEPT !.transactionItemList = Append(@, Head(dynamoPutItemInput.list))]

createBranch(reg, acc, transactionItem) ==
    LET dynamoPutItemInput == toDynamoPutItem(reg, transactionItem) IN
    IF ~isWriteTransactionItemList(dynamoPutItemInput)
    THEN [acc EXCEPT !.transactionItemList = Append(@, Op("Put", dynamoPutItemInput.input))]
    ELSE [acc EXCEPT !.transactionItemList = @ \o dynamoPutItemInput.list]

\* lines 132-152
updateBranchAlwaysLazy(reg, acc, transactionItem) ==
    [acc EXCEPT !.lazyTransactionWriteItemListLoader =
        Append(@, [kind |-> "update", entity |-> transactionItem.entity,
                   input |-> [record |-> "main",
                              entity |-> ClassName(transactionItem.entity),
                              condition |-> "none", set |-> transactionItem.body,
                              ReturnValues |-> "ALL_NEW"],
                   attrs |-> << >>])]

\* A variant that pushes the Update input as the transform returned it
updateBranchKeepsReturnValues(reg, acc, transactionItem) ==
    LET dynamoUpdateItemInput == toDynamoUpdateItem(reg, transactionItem) IN
    IF ~isLazyTransactionWriteItemListLoader(dynamoUpdateItemInput)
    THEN [acc EXCEPT !.transactionItemList =
            Append(@, Op("Update", dynamoUpdateItemInput.input))]
    ELSE [acc EXCEPT !.lazyTransactionWriteItemListLoader =
            Append(@, dynamoUpdateItemInput.loader)]

\* A variant that puts the lazy loader at the front of the list (unshift)
updateBranchQueuesFirst(reg, acc, transactionItem) ==
    LET dynamoUpdateItemInput == toDynamoUpdateItem(reg, transactionItem) IN
    IF ~isLazyTransactionWriteItemListLoader(dynamoUpdateItemInput)
    THEN [acc EXCEPT !.transactionItemList =
            Append(@, Op("Update", dropProp(dynamoUpdateItemInput.input, "ReturnValues")))]
    ELSE [acc EXCEPT !.lazyTransactionWriteItemListLoader =
            <<dynamoUpdateItemInput.loader>> \o @]

updateBranch(reg, acc, transactionItem) ==
    LET dynamoUpdateItemInput == toDynamoUpdateItem(reg, transactionItem) IN
    IF ~isLazyTransactionWriteItemListLoader(dynamoUpdateItemInput)
    THEN [acc EXCEPT !.transactionItemList =
            Append(@, Op("Update", dropProp(dynamoUpdateItemInput.input, "ReturnValues")))]
    ELSE [acc EXCEPT !.lazyTransactionWriteItemListLoader =
            Append(@, dynamoUpdateItemInput.loader)]

\* lines 153-169
deleteBranchAlsoEmits(reg, acc, transactionItem) ==
    LET dynamoDeleteItemInput == toDynamoDeleteItem(reg, transactionItem) IN
    IF ~isLazyTransactionWriteItemListLoader(dynamoDeleteItemInput)
    THEN [acc EXCEPT !.transactionItemList =
            Append(@, Op("Delete", dynamoDeleteItemInput.input))]
    ELSE [acc EXCEPT !.transactionItemList =
            Append(@, Op("Delete", dynamoDeleteItemInput.loader.input)),
                     !.lazyTransactionWriteItemListLoader =
            Append(@, dynamoDeleteItemInput.loader)]

deleteBranchDropsLoader(reg, acc, transactionItem) ==
    LET dynamoDeleteItemInput == toDynamoDeleteItem(reg, transactionItem) IN
    IF ~isLazyTransactionWriteItemListLoader(dynamoDeleteItemInput)
    THEN [acc EXCEPT !.transactionItemList =
            Append(@, Op("Delete", dynamoDeleteItemInput.input))]
    ELSE acc

deleteBranch(reg, acc, transactionItem) ==
    LET dynamoDeleteItemInput == toDynamoDeleteItem(reg, transactionItem) IN
    IF ~isLazyTransactionWriteItemListLoader(dynamoDeleteItemInput)
    THEN [acc EXCEPT !.transactionItemList =
            Append(@, Op("Delete", dynamoDeleteItemInput.input))]
    ELSE [acc EXCEPT !.lazyTransactionWriteItemListLoader =
            Append(@, dynamoDeleteItemInput.loader)]

\* The reducer of innerTransformTransactionWriteItems, lines 117-174
writeReducerSkipsInvalid(reg, acc, transactionItem) ==
    IF isTransactionAddCreateItem(transactionItem)
    THEN Continue(createBranch(reg, acc, transactionItem))
    ELSE IF isTransactionAddUpdateItem(transactionItem)
    THEN Continue(updateBranch(reg, acc, transactionItem))
    ELSE IF isTransactionAddDeleteItem(transactionItem)
    THEN Continue(deleteBranch(reg, acc, transactionItem))
    ELSE Continue(acc)

writeReducer(reg, acc, transactionItem) ==
    IF isTransactionAddCreateItem(transactionItem)
    THEN Continue(createBranch(reg, acc, transactionItem))
    ELSE IF isTransactionAddUpdateItem(transactionItem)
    THEN Continue(updateBranch(reg, acc, transactionItem))
    ELSE IF isTransactionAddDeleteItem(transactionItem)
    THEN Continue(deleteBranch(reg, acc, transactionItem))
    ELSE Raise("InvalidTransactionWriteItemError", acc)

\* Array.prototype.reduce over the write items: a throw of the reducer ends it
RECURSIVE reduceWriteItems(_, _, _)
reduceWriteItems(reg, transactionItems, acc) ==
    IF transactionItems = << >> THEN Continue(acc)
    ELSE LET step == writeReducer(reg, acc, Head(transactionItems)) IN
         IF step.thrown THEN step
         ELSE reduceWriteItems(reg, Tail(transactionItems), step.acc)

\* The order in which reduce visits the items; the first variant visits them
\* last to first (reduceRight).
lastToFirst(transactionItems) ==
    [i \in 1..Len(transactionItems) |->
        transactionItems[Len(transactionItems) + 1 - i]]

firstToLast(transactionItems) == transactionItems

innerTransformTransactionWriteItems(reg, transactionItems) ==
    reduceWriteItems(reg, firstToLast(transactionItems), EmptyWriteAcc)

\* The reducer of innerTransformTransactionReadItems, lines 82-101; the first
\* variant puts the Get at the front of the list (unshift).
readReducerPutsFirst(reg, acc, transactionItem) ==
    IF isTransactionAddGetItem(transactionItem)
    THEN Continue([acc EXCEPT !.transactionItemList =
                     <<Op("Get", toDynamoGetItem(reg, transactionItem))>> \o @])
    ELSE Raise("InvalidTransactionReadItemError", acc)

readReducer(reg, acc, transactionItem) ==
    IF isTransactionAddGetItem(transactionItem)
    THEN Continue([acc EXCEPT !.transactionItemList =
                     Append(@, Op("Get", toDynamoGetItem(reg, transactionItem)))])
    ELSE Raise("InvalidTransactionReadItemError", acc)

RECURSIVE reduceReadItems(_, _, _)
reduceReadItems(reg, transactionItems, acc) ==
    IF transactionItems = << >> THEN Continue(acc)
    ELSE LET step == readReducer(reg, acc, Head(transactionItems)) IN
         IF step.thrown THEN step
         ELSE reduceReadItems(reg, Tail(transactionItems), step.acc)

innerTransformTransactionReadItems(reg, transactionItems) ==
    reduceReadItems(reg, transactionItems, EmptyReadAcc)

NotSubmitted == [made |-> FALSE, kind |-> "none", ops |-> << >>]

Pending == [state |-> "pending", ops |-> << >>]

NoOther == [kind |-> "none", items |-> << >>, thrown |-> FALSE, error |-> "",
            transactionItemList |-> << >>,
            lazyTransactionWriteItemListLoader |-> << >>]

\* toDynamoWriteTransactionItems on the items of a write transaction: it
\* throws, or returns the operation list and the lazy loaders, whose reads
\* are then all started.
WriteTransaction(transactionItems) ==
        LET transformed ==
                innerTransformTransactionWriteItems(entityMetadatas, transactionItems)
        IN  /\ phase = "Idle"
            /\ isConnected
            /\ txKind' = "write"
            /\ items' = transactionItems
            /\ IF transformed.thrown
               THEN /\ phase' = "Rejected"
                    /\ result' = Throw("toDynamoWriteTransactionItems", "", transformed.error)
                    /\ UNCHANGED <<transactionItemList,
                                   lazyTransactionWriteItemListLoader, resolved>>
               ELSE /\ phase' = "Resolving"
                    /\ result' = Ok("toDynamoWriteTransactionItems", "", << >>)
                    /\ transactionItemList' = transformed.acc.transactionItemList
                    /\ lazyTransactionWriteItemListLoader' =
                          transformed.acc.lazyTransactionWriteItemListLoader
                    /\ resolved' =
                          [i \in 1..Len(transformed.acc.lazyTransactionWriteItemListLoader)
                              |-> Pending]
            /\ UNCHANGED <<finalList, submitted, reads, other>>
            /\ UNCHANGED connVars

toDynamoWriteTransactionItems ==
    /\ phase = "Idle"
    /\ isConnected
    /\ \E transactionItems \in ItemLists(RegisteredTargets(entityMetadatas), MaxItems) :
          WriteTransaction(transactionItems)

\* toDynamoReadTransactionItems on the items of a read transaction
ReadTransaction(transactionItems) ==
        LET transformed ==
                innerTransformTransactionReadItems(entityMetadatas, transactionItems)
        IN  /\ phase = "Idle"
            /\ isConnected
            /\ txKind' = "read"
            /\ items' = transactionItems
            /\ IF transformed.thrown
               THEN /\ phase' = "Rejected"
                    /\ result' = Throw("toDynamoReadTransactionItems", "", transformed.error)
                    /\ UNCHANGED transactionItemList
               ELSE /\ phase' = "Resolving"
                    /\ result' = Ok("toDynamoReadTransactionItems", "", << >>)
                    /\ transactionItemList' = transformed.acc.transactionItemList
            /\ UNCHANGED <<lazyTransactionWriteItemListLoader, resolved, finalList,
                           submitted, reads, other>>
            /\ UNCHANGED connVars

toDynamoReadTransactionItems ==
    /\ phase = "Idle"
    /\ isConnected
    /\ \E transactionItems \in ItemLists(RegisteredTargets(entityMetadatas), MaxItems) :
          ReadTransaction(transactionItems)

----------------------------------------------------------------------------
(* Resolution and submission of a composed transaction *)

\* One deferred expansion resolves: its read finds a stored record and the
\* expansion emits its operations, or the read fails and the composition
\* fails. Pending expansions resolve in any order.
ResolveExpansion ==
    \E k \in 1..Len(resolved) :
        /\ phase = "Resolving"
        /\ resolved[k].state = "pending"
        /\ reads' = reads + 1
        /\ \/ \E stored \in StoredItems(lazyTransactionWriteItemListLoader[k]) :
                /\ resolved' = [resolved EXCEPT ![k] =
                      [state |-> "resolved",
                       ops |-> lazyLoadTransactionWriteItems(
                                   lazyTransactionWriteItemListLoader[k], stored)]]
                /\ UNCHANGED phase
           \/ /\ resolved' = [resolved EXCEPT ![k] = [state |-> "failed", ops |-> << >>]]
              /\ phase' = "Failed"
        /\ UNCHANGED <<txKind, items, transactionItemList,
                       lazyTransactionWriteItemListLoader, finalList, submitted, result,
                       other>>
        /\ UNCHANGED connVars

RECURSIVE Flatten(_)
Flatten(lists) ==
    IF lists = << >> THEN << >> ELSE Head(lists) \o Flatten(Tail(lists))

\* Whether the composer may finalize
AllResolved(res) == \A k \in 1..Len(res) : res[k].state = "resolved"

\* Every expansion has resolved: the emitted operations are appended to the
\* operation list.
Finalize ==
    /\ phase = "Resolving"
    /\ AllResolved(resolved)
    /\ phase' = "Finalized"
    /\ finalList' = transactionItemList
                      \o Flatten([k \in 1..Len(resolved) |-> resolved[k].ops])
    /\ UNCHANGED <<txKind, items, transactionItemList,
                   lazyTransactionWriteItemListLoader, resolved, submitted, reads, result,
                   other>>
    /\ UNCHANGED connVars

\* The store's maximum item count per transaction, by which the executor's
\* submitTransaction is bounded. The boundary is named without a number; the
\* model sets it within the sizes of its transactions, so that lists on both
\* sides of it are composed.
TransactionItemLimit == 6

\* The finalized operation list is handed to the executor's submitTransaction:
\* a list longer than the store's maximum fails with a size-limit error and
\* is not submitted.
Submit ==
    /\ phase = "Finalized"
    /\ IF Len(finalList) > TransactionItemLimit
       THEN /\ phase' = "LimitExceeded"
            /\ result' = Throw("submitTransaction", "", "SizeLimitExceeded")
            /\ UNCHANGED submitted
       ELSE /\ phase' = "Submitted"
            /\ submitted' = [made |-> TRUE, kind |-> txKind, ops |-> finalList]
            /\ UNCHANGED result
    /\ UNCHANGED <<txKind, items, transactionItemList,
                   lazyTransactionWriteItemListLoader, resolved, finalList, reads,
                   other>>
    /\ UNCHANGED connVars

\* The transaction ends and its composer is dropped
Return ==
    /\ phase \in {"Rejected", "Failed", "LimitExceeded", "Submitted"}
    /\ phase' = "Idle"
    /\ txKind' = "none"
    /\ items' = << >>
    /\ transactionItemList' = << >>
    /\ lazyTransactionWriteItemListLoader' = << >>
    /\ resolved' = << >>
    /\ finalList' = << >>
    /\ submitted' = NotSubmitted
    /\ reads' = 0
    /\ result' = NoCall
    /\ UNCHANGED other
    /\ UNCHANGED connVars

----------------------------------------------------------------------------
(* Specification *)

\* The state after `new Connection(options, destroySelf)`
Init ==
    /\ entities \in EntityLists
    /\ isConnected = FALSE
    /\ entityMetadatas = Undefined
    /\ buildCount = 0
    /\ destroyed = << >>
    /\ result = NoCall
    /\ phase = "Idle"
    /\ txKind = "none"
    /\ items = << >>
    /\ transactionItemList = << >>
    /\ lazyTransactionWriteItemListLoader = << >>
    /\ resolved = << >>
    /\ finalList = << >>
    /\ submitted = NotSubmitted
    /\ reads = 0
    /\ other = NoOther

Next ==
    \/ connect
    \/ BuildMetadatas
    \/ GetEntityByTarget
    \/ GetAttributesForEntity
    \/ GetUniqueAttributesForEntity
    \/ GetAutoUpdateAttributes
    \/ HasMetadata
    \/ EntityMetadatas
    \/ toDynamoWriteTransactionItems
    \/ toDynamoReadTransactionItems
    \/ ResolveExpansion
    \/ Finalize
    \/ Submit
    \/ Return

Spec == Init /\ [][Next]_vars

----------------------------------------------------------------------------
(* Two compositions side by side *)

\* The transformer is called for a second transaction while the first one is
\* anywhere in its course: before it, while its expansions resolve, after it.
\* What the call returns or throws is kept in `other` until its caller is done.
SecondWriteTransaction ==
    /\ isConnected
    /\ other.kind = "none"
    /\ \E transactionItems \in
              ItemLists(RegisteredTargets(entityMetadatas), MaxConcurrentItems) :
        LET transformed ==
                innerTransformTransactionWriteItems(entityMetadatas, transactionItems)
        IN  /\ other' =
                  [kind |-> "write", items |-> transactionItems,
                   thrown |-> transformed.thrown, error |-> transformed.error,
                   transactionItemList |->
                       IF transformed.thrown THEN << >>
                       ELSE transformed.acc.transactionItemList,
                   lazyTransactionWriteItemListLoader |->
                       IF transformed.thrown THEN << >>
                       ELSE transformed.acc.lazyTransactionWriteItemListLoader]
            /\ UNCHANGED <<phase, txKind, items, transactionItemList,
                           lazyTransactionWriteItemListLoader, resolved, finalList,
                           submitted, reads, result>>
            /\ UNCHANGED connVars

SecondReadTransaction ==
    /\ isConnected
    /\ other.kind = "none"
    /\ \E transactionItems \in
              ItemLists(RegisteredTargets(entityMetadatas), MaxConcurrentItems) :
        LET transformed ==
                innerTransformTransactionReadItems(entityMetadatas, transactionItems)
        IN  /\ other' =
                  [kind |-> "read", items |-> transactionItems,
                   thrown |-> transformed.thrown, error |-> transformed.error,
                   transactionItemList |->
                       IF transformed.thrown THEN << >>
                       ELSE transformed.acc.transactionItemList,
                   lazyTransactionWriteItemListLoader |-> << >>]
            /\ UNCHANGED <<phase, txKind, items, transactionItemList,
                           lazyTransactionWriteItemListLoader, resolved, finalList,
                           submitted, reads, result>>
            /\ UNCHANGED connVars

\* The caller of the second composition is done with what it got
SecondReturn ==
    /\ other.kind # "none"
    /\ other' = NoOther
    /\ UNCHANGED <<phase, txKind, items, transactionItemList,
                   lazyTransactionWriteItemListLoader, resolved, finalList,
                   submitted, reads, result>>
    /\ UNCHANGED connVars

FirstWriteTransaction ==
    /\ phase = "Idle"
    /\ isConnected
    /\ \E transactionItems \in
              ItemLists(RegisteredTargets(entityMetadatas), MaxConcurrentItems) :
          WriteTransaction(transactionItems)

FirstReadTransaction ==
    /\ phase = "Idle"
    /\ isConnected
    /\ \E transactionItems \in
              ItemLists(RegisteredTargets(entityMetadatas), MaxConcurrentItems) :
          ReadTransaction(transactionItems)

NextConcurrent ==
    \/ connect
    \/ BuildMetadatas
    \/ FirstWriteTransaction
    \/ FirstReadTransaction
    \/ ResolveExpansion
    \/ Finalize
    \/ Submit
    \/ Return
    \/ SecondWriteTransaction
    \/ SecondReadTransaction
    \/ SecondReturn

SpecConcurrent == Init /\ [][NextConcurrent]_vars

----------------------------------------------------------------------------
(* Claims about the Connection *)

Declared == Range(entities)

DeclaredNames == { ClassName(t) : t \in Declared }

\* The metadata registered under a class name: that of the last declared
\* entity class with this name
LastDeclared(name) ==
    entities[CHOOSE i \in 1..Len(entities) :
                /\ ClassName(entities[i]) = name
                /\ \A j \in (i + 1)..Len(entities) : ClassName(entities[j]) # name]

\* C1: a connect() call on a context that is already Connected fails with the
\* already-connected error, does not run the metadata build again and leaves
\* the registry and the Connected flag as they were.
C1_SecondConnectFails ==
    [][(isConnected /\ result'.op = "connect") =>
          /\ result'.op = "connect"
          /\ result'.status = "error"
          /\ result'.error = "AlreadyConnected"
          /\ buildCount' = buildCount
          /\ entityMetadatas' = entityMetadatas
          /\ isConnected']_vars

C1_Witness ==
    /\ isConnected
    /\ entityMetadatas.entries # << >>
    /\ result.op = "connect"
    /\ result.error = "AlreadyConnected"

\* C2: when the metadata build throws during connect(), destroySelf is called
\* once with the connection's name, the build's own error is thrown on, the
\* context stays not Connected and the registry is not assigned.
C2_BuildFailureTearsDown ==
    [][(~isConnected /\ result'.op = "connect" /\ buildCount' # buildCount
            /\ ~buildMetadatas(entities).ok) =>
          /\ destroyed' = Append(destroyed, ConnectionName)
          /\ result'.op = "connect"
          /\ result'.status = "error"
          /\ result'.error = buildMetadatas(entities).error
          /\ ~isConnected'
          /\ entityMetadatas' = entityMetadatas
          /\ ~entityMetadatas'.defined]_vars

C2_Witness ==
    /\ result.op = "connect"
    /\ result.error = "InvalidKeyTemplate"
    /\ destroyed # << >>
    /\ ~isConnected
    /\ ~entityMetadatas.defined

\* C3 as stated: on a Connected context getEntityByTarget(type) fails with
\* the unknown-entity error for every type that was not declared, and returns
\* that type's own metadata for every declared type.
C3_Original ==
    (isConnected /\ result.op = "getEntityByTarget") =>
        IF result.arg \in Declared
        THEN result.status = "ok" /\ result.value = <<EntityMetadataOf(result.arg)>>
        ELSE result.status = "error" /\ result.error = "NoSuchEntity"

\* C3 amended: the lookup goes by class name. On a Connected context
\* getEntityByTarget(type) fails with the unknown-entity error, returning no
\* metadata, for every type whose class name is the name of no declared
\* entity, and for every other type it returns the metadata of the last
\* declared entity of that class name; on a context that is not Connected it
\* fails and returns no metadata.
C3_LookupByClassName ==
    result.op = "getEntityByTarget" =>
        IF ~isConnected
        THEN result.status = "error" /\ result.value = << >>
        ELSE IF ClassName(result.arg) \in DeclaredNames
        THEN /\ result.status = "ok"
             /\ result.value = <<EntityMetadataOf(LastDeclared(ClassName(result.arg)))>>
        ELSE /\ result.status = "error"
             /\ result.error = "NoSuchEntity"
             /\ result.value = << >>

C3_Witness ==
    /\ isConnected
    /\ Declared # {}
    /\ result.op = "getEntityByTarget"
    /\ result.arg \notin Declared
    /\ result.error = "NoSuchEntity"

\* The attribute names referenced by some interpolation pattern of a primary key
KeyAttributeNames(primaryKey) ==
    UNION { Range(primaryKey.interpolations[i].attrs) :
                i \in 1..Len(primaryKey.interpolations) }

\* Whether s is t with some elements left out, order kept
RECURSIVE IsSubsequence(_, _)
IsSubsequence(s, t) ==
    IF s = << >> THEN TRUE
    ELSE IF t = << >> THEN FALSE
    ELSE IF Head(s) = Head(t) THEN IsSubsequence(Tail(s), Tail(t))
    ELSE IsSubsequence(s, Tail(t))

\* C4: for a declared entity on a Connected context, the result of
\* getUniqueAttributesForEntity is the attribute list of
\* getAttributesForEntity with exactly the attributes left out that are not
\* unique or whose name occurs in a primary-key interpolation pattern, the
\* others in their original order.
C4_UniqueAttributesExcludeKey ==
    (isConnected /\ result.op = "getUniqueAttributesForEntity"
                 /\ result.arg \in Declared) =>
        LET meta  == MapGet(entityMetadatas.entries, ClassName(result.arg))
            attrs == getAttributesForEntity(entityMetadatas, result.arg).value
            inKey == KeyAttributeNames(meta.primaryKey)
        IN  /\ result.status = "ok"
            /\ IsSubsequence(result.value, attrs)
            /\ \A i \in 1..Len(attrs) :
                  (attrs[i] \in Range(result.value))
                      <=> (attrs[i].unique /\ attrs[i].name \notin inKey)
            /\ Len(result.value) =
                  Cardinality({ i \in 1..Len(attrs) :
                                  attrs[i].unique /\ attrs[i].name \notin inKey })

C4_Witness ==
    /\ isConnected
    /\ result.op = "getUniqueAttributesForEntity"
    /\ result.arg = "User"
    /\ result.status = "ok"
    /\ result.value = << Attr("email", TRUE, FALSE) >>
    /\ \E i \in 1..Len(AttributesOf("User")) :
          /\ AttributesOf("User")[i].unique
          /\ AttributesOf("User")[i] \notin Range(result.value)
----------------------------------------------------------------------------
(* Claims about the composition of transactions *)

\* The names of the non-key unique attributes of the entity registered under
\* the class name of t
NonKeyUniqueNames(t) ==
    LET meta == MapGet(entityMetadatas.entries, ClassName(t)) IN
    { meta.attributes[i].name : i \in
        { j \in 1..Len(meta.attributes) :
            /\ meta.attributes[j].unique
            /\ meta.attributes[j].name \notin KeyAttributeNames(meta.primaryKey) } }

\* Whether composing the item yields a deferred expansion
Defers(item) ==
    \/ item.kind = "update" /\ (DOMAIN item.body) \cap NonKeyUniqueNames(item.entity) # {}
    \/ item.kind = "delete" /\ NonKeyUniqueNames(item.entity) # {}

\* The operations the transform of one item of a write transaction resolves
\* to directly: none for an item that yields a deferred expansion
DirectOps(item) ==
    CASE item.kind = "create" ->
            LET put == toDynamoPutItem(entityMetadatas, item)
            IN  IF put.isList THEN put.list ELSE <<Op("Put", put.input)>>
      [] item.kind = "update" ->
            LET upd == toDynamoUpdateItem(entityMetadatas, item)
            IN  IF upd.isLazy THEN << >>
                ELSE <<Op("Update", [record |-> "main",
                                     entity |-> ClassName(item.entity),
                                     condition |-> "none", set |-> item.body])>>
      [] item.kind = "delete" ->
            LET del == toDynamoDeleteItem(entityMetadatas, item)
            IN  IF del.isLazy THEN << >> ELSE <<Op("Delete", del.input)>>
      [] OTHER -> << >>

\* The directly resolved operations of the items, item after item
DirectInItemOrder == Flatten([i \in 1..Len(items) |-> DirectOps(items[i])])

RECURSIVE Sum(_)
Sum(numbers) == IF numbers = << >> THEN 0 ELSE Head(numbers) + Sum(Tail(numbers))

\* How many times x occurs in the list
Count(list, x) == Cardinality({ j \in 1..Len(list) : list[j] = x })

Composed ==
    phase \in {"Resolving", "Failed", "Finalized", "LimitExceeded", "Submitted"}

\* C5: a write transaction holding, at any position, an item that is not
\* Create/Update/Delete fails with InvalidTransactionWriteItemError, a read
\* transaction holding an item that is not Get fails with
\* InvalidTransactionReadItemError; no operation list and no lazy loader is
\* returned, nothing is resolved, read or submitted.
C5_WrongItemKindFailsFast ==
    (phase # "Idle" /\ \E i \in 1..Len(items) :
                          IF txKind = "write"
                          THEN items[i].kind \notin {"create", "update", "delete"}
                          ELSE items[i].kind # "get") =>
        /\ phase = "Rejected"
        /\ result.status = "error"
        /\ result.error = IF txKind = "write" THEN "InvalidTransactionWriteItemError"
                          ELSE "InvalidTransactionReadItemError"
        /\ result.value = << >>
        /\ transactionItemList = << >>
        /\ lazyTransactionWriteItemListLoader = << >>
        /\ resolved = << >>
        /\ finalList = << >>
        /\ ~submitted.made
        /\ reads = 0

C5_Witness ==
    /\ phase = "Rejected"
    /\ txKind = "write"
    /\ Len(items) = 3
    /\ items[1].kind = "create"
    /\ items[2].kind = "get"
    /\ result.error = "InvalidTransactionWriteItemError"

\* C6: the operation list of a composed write transaction is the directly
\* resolved operations of its items in item order: all operations of an
\* earlier item precede all operations of a later item, and the operations
\* of a list-valued result are contiguous and in the result's order.
C6_DirectOperationsInItemOrder ==
    (Composed /\ txKind = "write") =>
        LET ops == [i \in 1..Len(items) |-> DirectOps(items[i])]
        IN  /\ transactionItemList = Flatten(ops)
            /\ \A i \in 1..Len(items) :
                  LET before == Len(Flatten(SubSeq(ops, 1, i - 1)))
                  IN  \A p \in 1..Len(ops[i]) :
                          transactionItemList[before + p] = ops[i][p]

C6_Witness ==
    /\ phase = "Resolving"
    /\ txKind = "write"
    /\ Len(items) = 3
    /\ items[1].kind = "create" /\ Len(DirectOps(items[1])) = 2
    /\ Defers(items[2])
    /\ items[3].kind = "update" /\ ~Defers(items[3])
    /\ Len(transactionItemList) = 3
    /\ transactionItemList[3].type = "Update"

\* C7: in a composed write transaction every Update item whose body sets no
\* non-key unique attribute has exactly one Update operation in the operation
\* list and no entry in the pending queue; no other item puts an Update
\* operation there, and a transaction of such updates alone performs no read.
C7_PlainUpdateResolvesToOneUpdate ==
    (Composed /\ txKind = "write") =>
        LET updates == { i \in 1..Len(items) : items[i].kind = "update" }
            plain   == { i \in updates : ~Defers(items[i]) }
            OpOf(i) == Op("Update", [record |-> "main",
                                     entity |-> ClassName(items[i].entity),
                                     condition |-> "none", set |-> items[i].body])
        IN  /\ \A i \in plain :
                  Count(transactionItemList, OpOf(i))
                      = Cardinality({ h \in plain : OpOf(h) = OpOf(i) })
            /\ Cardinality({ j \in 1..Len(transactionItemList) :
                                transactionItemList[j].type = "Update" })
                  = Cardinality(plain)
            /\ Cardinality({ k \in 1..Len(lazyTransactionWriteItemListLoader) :
                                lazyTransactionWriteItemListLoader[k].kind = "update" })
                  = Cardinality(updates \ plain)
            /\ (plain = 1..Len(items)) =>
                  /\ lazyTransactionWriteItemListLoader = << >>
                  /\ reads = 0
                  /\ Len(transactionItemList) = Len(items)

C7_Witness ==
    /\ phase = "Submitted"
    /\ txKind = "write"
    /\ Len(items) = 2
    /\ \A i \in 1..2 : items[i].kind = "update" /\ ~Defers(items[i])
    /\ \E n \in DOMAIN items[1].body :
          \E a \in Range(AttributesOf("User")) : a.name = n /\ a.unique
    /\ Len(submitted.ops) = 2
    /\ reads = 0

\* C8: in a composed write transaction each Create item of an entity with k
\* non-key unique attributes has k + 1 operations in the operation list: the
\* Put of the main record, once, and per unique attribute one Put of its
\* lock record conditioned on non-existence; only Create items put Put
\* operations there.
C8_CreateYieldsMainPutAndLocks ==
    (Composed /\ txKind = "write") =>
        LET creates == { i \in 1..Len(items) : items[i].kind = "create" }
            K(i)    == Cardinality(NonKeyUniqueNames(items[i].entity))
            Puts(record) == { j \in 1..Len(transactionItemList) :
                                /\ transactionItemList[j].type = "Put"
                                /\ transactionItemList[j].input.record = record }
        IN  /\ Cardinality(Puts("main")) = Cardinality(creates)
            /\ Cardinality(Puts("lock"))
                  = Sum([i \in 1..Len(items) |-> IF i \in creates THEN K(i) ELSE 0])
            /\ \A j \in 1..Len(transactionItemList) :
                  transactionItemList[j].type = "Put"
                      => transactionItemList[j].input.record \in {"main", "lock"}
            /\ \A j \in Puts("lock") :
                  transactionItemList[j].input.condition = "attribute_not_exists"
            /\ \A i \in creates :
                  /\ Len(DirectOps(items[i])) = K(i) + 1
                  /\ Count(transactionItemList, Op("Put", MainRecord(items[i].entity)))
                        = Cardinality({ h \in creates :
                              ClassName(items[h].entity) = ClassName(items[i].entity) })
                  /\ \A n \in NonKeyUniqueNames(items[i].entity) :
                        \E j \in Puts("lock") :
                            /\ transactionItemList[j].input.entity
                                  = ClassName(items[i].entity)
                            /\ transactionItemList[j].input.attr = n
            /\ (creates = 1..Len(items)) =>
                  Len(transactionItemList) = Sum([i \in 1..Len(items) |-> K(i) + 1])

C8_Witness ==
    /\ phase = "Resolving"
    /\ txKind = "write"
    /\ Len(items) = 1
    /\ items[1].kind = "create"
    /\ Cardinality(NonKeyUniqueNames(items[1].entity)) = 2
    /\ Len(transactionItemList) = 3
    /\ transactionItemList[1] = Op("Put", MainRecord(items[1].entity))

\* C9: in a finalized write transaction whose expansions all resolved, there
\* is one expansion per item that defers, the final list holds exactly the
\* directly resolved operations and the operations each expansion emitted,
\* each as often as they were produced, and it starts with the directly
\* resolved operations in item order.
C9_FinalListIsDirectPlusExpansions ==
    (phase \in {"Finalized", "LimitExceeded", "Submitted"} /\ txKind = "write") =>
        LET emitted == [k \in 1..Len(resolved) |-> resolved[k].ops]
            direct  == DirectInItemOrder
            all     == Range(finalList) \cup Range(direct)
                          \cup UNION { Range(emitted[k]) : k \in 1..Len(emitted) }
        IN  /\ Len(resolved) = Cardinality({ i \in 1..Len(items) : Defers(items[i]) })
            /\ Len(lazyTransactionWriteItemListLoader) = Len(resolved)
            /\ \A k \in 1..Len(resolved) :
                  resolved[k].state = "resolved" /\ resolved[k].ops # << >>
            /\ Len(finalList) = Len(direct)
                                  + Sum([k \in 1..Len(emitted) |-> Len(emitted[k])])
            /\ SubSeq(finalList, 1, Len(direct)) = direct
            /\ \A o \in all :
                  Count(finalList, o) = Count(direct, o)
                      + Sum([k \in 1..Len(emitted) |-> Count(emitted[k], o)])

C9_Witness ==
    /\ phase = "Finalized"
    /\ txKind = "write"
    /\ Len(resolved) = 2
    /\ Len(transactionItemList) = 2
    /\ Len(resolved[1].ops) # Len(resolved[2].ops)
    /\ Len(finalList) = 2 + Len(resolved[1].ops) + Len(resolved[2].ops)

\* C10: a transaction is finalized, and its operation list handed to the
\* executor, only when every item that defers has its expansion in the
\* pending queue and every expansion there has resolved; once the read of an
\* expansion has failed the composition has failed and nothing is submitted.
C10_FinalizedOnlyWhenAllResolved ==
    /\ phase \in {"Finalized", "LimitExceeded", "Submitted"} =>
          /\ Len(resolved) = Len(lazyTransactionWriteItemListLoader)
          /\ txKind = "write" =>
                Len(resolved) = Cardinality({ i \in 1..Len(items) : Defers(items[i]) })
          /\ \A k \in 1..Len(resolved) : resolved[k].state = "resolved"
    /\ submitted.made =>
          /\ phase = "Submitted"
          /\ submitted.ops = finalList
          /\ \A k \in 1..Len(resolved) : resolved[k].state = "resolved"
    /\ (\E k \in 1..Len(resolved) : resolved[k].state = "failed") =>
          /\ phase = "Failed"
          /\ ~submitted.made
          /\ finalList = << >>
    /\ phase = "Failed" => \E k \in 1..Len(resolved) : resolved[k].state = "failed"
    /\ reads = Cardinality({ k \in 1..Len(resolved) : resolved[k].state # "pending" })

C10_Witness ==
    /\ phase = "Failed"
    /\ Len(resolved) = 2
    /\ resolved[1].state = "failed"
    /\ resolved[2].state = "resolved"
    /\ ~submitted.made

----------------------------------------------------------------------------
(* Size of a transaction *)

\* C11: a transaction whose composed operation list, lock records and the
\* operations of the deferred expansions included, exceeds the store's
\* maximum item count fails with a size-limit error before anything is
\* submitted: no list longer than the maximum is handed to the executor, and
\* a finalized list longer than it ends in the size-limit error with nothing
\* submitted.
C11_OverLimitFailsBeforeSubmit ==
    /\ submitted.made => Len(submitted.ops) <= TransactionItemLimit
    /\ phase = "Submitted" => Len(finalList) <= TransactionItemLimit
    /\ phase = "LimitExceeded" =>
          /\ Len(finalList) > TransactionItemLimit
          /\ ~submitted.made
          /\ result = Throw("submitTransaction", "", "SizeLimitExceeded")

----------------------------------------------------------------------------
(* Read transactions *)

\* C12: a composed read transaction of n Get items has exactly n operations,
\* the i-th being the Get of the transform of the i-th item; it holds no
\* deferred expansion, reads nothing, and the list that is finalized and
\* submitted is that operation list.
C12_ReadYieldsOneGetPerItem ==
    (Composed /\ txKind = "read") =>
        /\ Len(transactionItemList) = Len(items)
        /\ \A i \in 1..Len(items) :
              /\ items[i].kind = "get"
              /\ transactionItemList[i] =
                    Op("Get", toDynamoGetItem(entityMetadatas, items[i]))
        /\ lazyTransactionWriteItemListLoader = << >>
        /\ resolved = << >>
        /\ reads = 0
        /\ phase # "Failed"
        /\ phase \in {"Finalized", "LimitExceeded", "Submitted"} => finalList = transactionItemList
        /\ submitted.made => submitted.kind = "read" /\ submitted.ops = transactionItemList

C12_Witness ==
    /\ phase = "Submitted"
    /\ txKind = "read"
    /\ Len(items) = 3
    /\ items[1].entity # items[2].entity
    /\ items[2].entity = items[3].entity
    /\ Len(submitted.ops) = 3
    /\ submitted.ops[1] # submitted.ops[2]

----------------------------------------------------------------------------
(* The pending queue *)

\* The positions of the items that yield a deferred expansion, ascending
DeferringPositions ==
    LET Deferring(i) == Defers(items[i])
    IN  SelectSeq([i \in 1..Len(items) |-> i], Deferring)

\* The deferred expansion the transform of an Update or Delete item yields
ExpansionOf(item) ==
    IF item.kind = "update" THEN toDynamoUpdateItem(entityMetadatas, item).loader
    ELSE toDynamoDeleteItem(entityMetadatas, item).loader

\* C13: the pending queue of a composed write transaction holds exactly one
\* entry per Update or Delete item whose transform yields a deferred
\* expansion, in item order; such an item adds nothing to the operation
\* list, and no Create item adds to the queue.
C13_PendingQueueInItemOrder ==
    (Composed /\ txKind = "write") =>
        LET deferring == DeferringPositions
        IN  /\ Len(lazyTransactionWriteItemListLoader) = Len(deferring)
            /\ \A k \in 1..Len(deferring) :
                  /\ items[deferring[k]].kind \in {"update", "delete"}
                  /\ lazyTransactionWriteItemListLoader[k] =
                        ExpansionOf(items[deferring[k]])
            /\ \A k \in 1..Len(lazyTransactionWriteItemListLoader) :
                  lazyTransactionWriteItemListLoader[k].kind \in {"update", "delete"}
            /\ Len(transactionItemList) =
                  Sum([i \in 1..Len(items) |->
                         IF i \in Range(deferring) THEN 0
                         ELSE Len(DirectOps(items[i]))])

C13_Witness ==
    /\ phase = "Resolving"
    /\ txKind = "write"
    /\ Len(items) = 3
    /\ items[1].kind = "create"
    /\ items[2].kind = "delete" /\ Defers(items[2])
    /\ items[3].kind = "update" /\ Defers(items[3])
    /\ Len(lazyTransactionWriteItemListLoader) = 2
    /\ lazyTransactionWriteItemListLoader[1].kind = "delete"
    /\ lazyTransactionWriteItemListLoader[2].kind = "update"
    /\ Len(transactionItemList) = 2

----------------------------------------------------------------------------
(* The registry after connect *)

\* C14: once connect() has succeeded the registry is read-only: no lookup,
\* no composition of a transaction and no later step of one, in any number
\* and order, changes the declared entities, the registry or the flag.
C14_RegistryReadOnlyOnceConnected ==
    [][isConnected => /\ entityMetadatas' = entityMetadatas
                      /\ entities' = entities
                      /\ isConnected']_vars

C14_Witness ==
    /\ isConnected
    /\ phase = "Submitted"
    /\ txKind = "write"
    /\ Len(submitted.ops) >= 3
    /\ Len(entityMetadatas.entries) = 2
    /\ entityMetadatas.entries = RegistryFrom(buildMetadatas(entities).metas)

----------------------------------------------------------------------------
(* Compositions side by side *)

\* What a write composition of the items yields when nothing but the items
\* and the registry goes into it
FreshOperations(list) == Flatten([i \in 1..Len(list) |-> DirectOps(list[i])])

FreshExpansions(list) ==
    Flatten([i \in 1..Len(list) |->
               IF Defers(list[i]) THEN <<ExpansionOf(list[i])>> ELSE << >>])

FreshGets(list) ==
    [i \in 1..Len(list) |-> Op("Get", toDynamoGetItem(entityMetadatas, list[i]))]

\* C15: two compositions on one transformer and connection share no mutable
\* state: whatever the other composition is and wherever it stands, the
\* lists of each are those its own items and the registry give from empty
\* lists, and each throws exactly for an item of its own that is of the
\* wrong kind.
C15_CompositionsShareNothing ==
    /\ (Composed /\ txKind = "write") =>
          /\ transactionItemList = FreshOperations(items)
          /\ lazyTransactionWriteItemListLoader = FreshExpansions(items)
    /\ (Composed /\ txKind = "read") => transactionItemList = FreshGets(items)
    /\ phase = "Rejected" <=>
          \E i \in 1..Len(items) :
              IF txKind = "write" THEN items[i].kind = "get" ELSE items[i].kind # "get"
    /\ other.kind = "write" =>
          /\ other.thrown <=> \E i \in 1..Len(other.items) : other.items[i].kind = "get"
          /\ ~other.thrown =>
                /\ other.transactionItemList = FreshOperations(other.items)
                /\ other.lazyTransactionWriteItemListLoader =
                      FreshExpansions(other.items)
    /\ other.kind = "read" =>
          /\ other.thrown <=> \E i \in 1..Len(other.items) : other.items[i].kind # "get"
          /\ ~other.thrown => other.transactionItemList = FreshGets(other.items)

C15_Witness ==
    /\ phase = "Resolving"
    /\ txKind = "write"
    /\ Len(lazyTransactionWriteItemListLoader) = 1
    /\ resolved[1].state = "pending"
    /\ other.kind = "write"
    /\ ~other.thrown
    /\ Len(other.items) = 1
    /\ Len(other.transactionItemList) = 2

----------------------------------------------------------------------------
(* The connect() calls of one connection *)

\* C16: over any sequence of connect() calls the registry is assigned at most
\* once and at most one call succeeds: the registry is assigned only while
\* it is unassigned and the context not Connected, by a call that succeeds
\* and sets the flag; the flag never goes back to false; and once the flag
\* is set no connect() call runs the metadata build or succeeds. (A direct
\* call of the public buildMetadatas() is no connect() call: it runs the
\* build at any time and assigns nothing.)
C16_MetadataBuiltOnce ==
    [][/\ isConnected => isConnected'
       /\ entityMetadatas.defined => entityMetadatas' = entityMetadatas
       /\ entityMetadatas' # entityMetadatas =>
             /\ ~isConnected /\ isConnected'
             /\ entityMetadatas'.defined
             /\ buildCount' = buildCount + 1
             /\ result' = Ok("connect", "", << >>)
       /\ isConnected' # isConnected => entityMetadatas' # entityMetadatas
       /\ (result'.op = "connect" /\ buildCount' # buildCount) => ~isConnected
       /\ (result'.op = "connect" /\ result'.status = "ok" /\ result' # result) =>
             ~isConnected /\ isConnected']_vars

C16_Witness ==
    /\ isConnected
    /\ buildCount = 1
    /\ destroyed = << >>
    /\ Len(entityMetadatas.entries) = 2
    /\ result = Throw("connect", "", "AlreadyConnected")

----------------------------------------------------------------------------
(* Lookups before a successful connect *)

LookupOps == {"getEntityByTarget", "getAttributesForEntity",
              "getUniqueAttributesForEntity", "getAutoUpdateAttributes",
              "hasMetadata", "entityMetadatas"}

\* C17: on a context on which no connect() has succeeded, be it never
\* connected or after a failed connect, every registry lookup fails: it
\* throws on the unassigned registry and returns no metadata, no attribute
\* list and no boolean.
C17_LookupsFailBeforeConnect ==
    (~isConnected /\ result.op \in LookupOps) =>
        /\ ~entityMetadatas.defined
        /\ result.status = "error"
        /\ result.error = "TypeError"
        /\ result.value = << >>

C17_Witness ==
    /\ ~isConnected
    /\ buildCount = 1
    /\ destroyed = <<ConnectionName>>
    /\ result = Throw("entityMetadatas", "", "TypeError")

----------------------------------------------------------------------------
(* hasMetadata *)

\* C18 as stated: hasMetadata never returns false; on a Connected context it
\* returns true for every declared entity class and fails with the
\* unknown-entity error for every class that was not declared.
C18_Original ==
    result.op = "hasMetadata" =>
        /\ result.value # <<FALSE>>
        /\ isConnected =>
              IF result.arg \in Declared
              THEN result = Ok("hasMetadata", result.arg, <<TRUE>>)
              ELSE result = Throw("hasMetadata", result.arg, "NoSuchEntity")

\* C18, amended: hasMetadata never returns false; on a Connected context it
\* returns true for every class whose class name is that of a declared
\* entity, declared itself or not, and fails with the unknown-entity error
\* for every other class; on a context that is not Connected it fails.
C18_HasMetadataByClassName ==
    result.op = "hasMetadata" =>
        /\ result.value # <<FALSE>>
        /\ isConnected =>
              IF ClassName(result.arg) \in DeclaredNames
              THEN result = Ok("hasMetadata", result.arg, <<TRUE>>)
              ELSE result = Throw("hasMetadata", result.arg, "NoSuchEntity")
        /\ ~isConnected => result.status = "error" /\ result.value = << >>

C18_Witness ==
    /\ isConnected
    /\ result.op = "hasMetadata"
    /\ result.arg = "UserV2"
    /\ result.status = "ok"
    /\ result.value = <<TRUE>>
    /\ "UserV2" \notin Declared
    /\ "User" \in Declared

----------------------------------------------------------------------------
(* The registry's keys *)

\* C19: the registry is keyed by class name: after a successful connect it
\* holds exactly one entry per distinct class name of the built metadatas,
\* the entry of a name being the metadata of the last declared class of
\* that name; a lookup by any class of the name returns that metadata.
C19_OneEntryPerClassName ==
    isConnected =>
        /\ Len(entityMetadatas.entries) = Cardinality(DeclaredNames)
        /\ { entityMetadatas.entries[i].key : i \in 1..Len(entityMetadatas.entries) }
              = DeclaredNames
        /\ \A i \in 1..Len(entityMetadatas.entries) :
              entityMetadatas.entries[i].value =
                  EntityMetadataOf(LastDeclared(entityMetadatas.entries[i].key))
        /\ (result.op = "getEntityByTarget" /\ result.status = "ok") =>
              result.value = <<EntityMetadataOf(LastDeclared(ClassName(result.arg)))>>

C19_Witness ==
    /\ isConnected
    /\ entities = <<"User", "UserV2">>
    /\ Len(entityMetadatas.entries) = 1
    /\ result.op = "getEntityByTarget"
    /\ result.arg = "User"
    /\ result.status = "ok"
    /\ result.value[1].target = "UserV2"

----------------------------------------------------------------------------
(* ReturnValues of a transactional Update *)

\* The positions of the Update items that resolve directly
DirectUpdatePositions ==
    { i \in 1..Len(items) : items[i].kind = "update" /\ ~Defers(items[i]) }

\* C20: every Update operation in the operation list of a composed write
\* transaction is without ReturnValues, and is otherwise the Update input
\* the transform of its item returned; there is one per directly resolved
\* Update item.
C20_DirectUpdateHasNoReturnValues ==
    (Composed /\ txKind = "write") =>
        LET updates == { j \in 1..Len(transactionItemList) :
                            transactionItemList[j].type = "Update" }
        IN  /\ \A j \in updates :
                  /\ "ReturnValues" \notin DOMAIN transactionItemList[j].input
                  /\ \E i \in DirectUpdatePositions :
                        LET input == toDynamoUpdateItem(entityMetadatas, items[i]).input
                        IN  /\ DOMAIN transactionItemList[j].input
                                  = (DOMAIN input) \ {"ReturnValues"}
                            /\ \A f \in DOMAIN transactionItemList[j].input :
                                  transactionItemList[j].input[f] = input[f]
            /\ Cardinality(updates) = Cardinality(DirectUpdatePositions)

C20_Witness ==
    /\ phase = "Resolving"
    /\ txKind = "write"
    /\ Len(items) = 2
    /\ items[1].kind = "update" /\ ~Defers(items[1])
    /\ items[2].kind = "update" /\ Defers(items[2])
    /\ "ReturnValues" \in DOMAIN toDynamoUpdateItem(entityMetadatas, items[1]).input
    /\ Len(transactionItemList) = 1
    /\ transactionItemList[1].type = "Update"
    /\ "ReturnValues" \notin DOMAIN transactionItemList[1].input

====
